---- MODULE Spec2Model ----
(***************************************************************************)
(* Limit-order-book pipeline of lib/lob-data (src/unnamed/part_000):       *)
(* generateLOBData, calculateFeatures, runTimeSeriesAnalysis and           *)
(* gaussianRandom.                                                         *)
(*                                                                         *)
(* The code computes in IEEE doubles.  The model computes in scaled        *)
(* integers, each quantity in a fixed unit:                                *)
(*   uniform samples      entries of a table (value, radius, cosine)       *)
(*   Gaussian draws       1e-6                                             *)
(*   currentVolatility    1e-9                                             *)
(*   currentPrice         1e-6                                             *)
(*   spread (unrounded)   1e-9                                             *)
(*   imbalance (unrounded)1e-6                                             *)
(* Reported fields are integers in the unit of their rounding: midPrice    *)
(* and spread 1e-4, level prices 1e-2, orderImbalance 1e-4, volatility     *)
(* 1e-6.  Math.round is modelled by RoundDiv (half up, as in JavaScript).  *)
(* The best prices of one iteration (lines 113-122 at level 0) are also    *)
(* followed in the doubles themselves, bit by bit (SpecBestPrices).        *)
(***************************************************************************)
EXTENDS Integers, Sequences, FiniteSets, TLC

VARIABLES
    stream,             \* the uniform source: a pattern of samples, repeated
    numRecords,         \* generateLOBData's argument
    pc,                 \* position of the generator: "idle", "loop", "returned"
    i,                  \* loop index of generateLOBData (line 90)
    pos,                \* number of Math.random() results consumed so far
    currentPrice,       \* line 86
    currentVolatility,  \* line 87
    data,               \* line 85: the snapshots pushed so far
    invocation,         \* how many times generateLOBData has been entered
    previous,           \* the sequence returned by the invocation before
    snapshots,          \* calculateFeatures' argument `data`
    fpc,                \* position of calculateFeatures: "off", "loop", "returned"
    fi,                 \* loop index of calculateFeatures (line 158)
    features,           \* line 156: the feature records pushed so far
    afeatures,          \* runTimeSeriesAnalysis' argument `features`
    apc,                \* position of runTimeSeriesAnalysis
    ai,                 \* index of the loop runTimeSeriesAnalysis is in
    history,            \* line 212
    arimaResults,       \* line 211
    condVar,            \* line 238
    garchResults,       \* line 237
    volatilityRegimes,  \* line 264
    metrics,            \* lines 291-300: the metrics of the returned object
    series,             \* calcMetrics' arguments <<actual, predicted>>
    mpc,                \* position of calcMetrics called on series
    result,             \* what that call returned
    alternate,          \* the argument of a second call of a stage, if one is made
    firstCall,          \* the argument and the results of the first call, once over
    quote,              \* currentPrice, spread and tradeSide of one iteration, as doubles
    lpc,                \* position in that iteration: "off", "level 0", "pushed"
    best                \* the best bid, the best ask and the trade price it pushes

genVars == <<stream, numRecords, pc, i, pos, currentPrice, currentVolatility,
             data, invocation, previous>>

featVars == <<snapshots, fpc, fi, features>>

anaVars ==
    <<afeatures, apc, ai, history, arimaResults, condVar, garchResults,
      volatilityRegimes, metrics>>

metVars == <<series, mpc, result>>

pairVars == <<alternate, firstCall>>

bestVars == <<quote, lpc, best>>

\* metrics before line 291 is reached
NoMetrics == <<>>

\* condVar before line 238 is reached
NoCondVar == [num |-> <<>>, exp |-> 0]

AnalysisOff ==
    /\ afeatures = <<>>
    /\ apc = "off"
    /\ ai = 0
    /\ history = <<>>
    /\ arimaResults = <<>>
    /\ condVar = NoCondVar
    /\ garchResults = <<>>
    /\ volatilityRegimes = <<>>
    /\ metrics = NoMetrics

MetricsOff ==
    /\ series = <<<<>>, <<>>>>
    /\ mpc = "off"
    /\ result = NoMetrics

\* No second call is made.
PairOff ==
    /\ alternate = <<>>
    /\ firstCall = <<>>

\* No iteration is followed in double precision.
BestOff ==
    /\ quote = <<>>
    /\ lpc = "off"
    /\ best = <<>>

vars == <<genVars, featVars, anaVars, metVars, pairVars, bestVars>>

-----------------------------------------------------------------------------
(* Arithmetic helpers *)

Abs(x) == IF x < 0 THEN -x ELSE x

Max(a, b) == IF a > b THEN a ELSE b

Min(a, b) == IF a < b THEN a ELSE b

Sign(x) == IF x > 0 THEN 1 ELSE IF x < 0 THEN -1 ELSE 0

\* Lines 167 and 264: what slice leaves of the array it is called on when it copies from index
\* from on, had it removed the elements it copies (as splice does).
SliceRemoves(arr, from) == SubSeq(arr, 1, from)

\* What slice leaves of the array it is called on: the array.
AfterSlice(arr, from) == arr

\* Math.round(n / d) for d > 0: the nearest integer, halves rounded up.
RoundDiv(n, d) == (2 * n + d) \div (2 * d)

\* The greatest power of two, at most 2^15, whose product with c is below
\* 2^31, for 0 < c < 2^30.
Radix(c) ==
    CHOOSE x \in {2^k : k \in 1..15} :
        /\ x <= 2147483647 \div c
        /\ x = 2^15 \/ 2 * x > 2147483647 \div c

\* <<q, r>> with a * b = q * c + r and 0 <= r < c, for 0 <= a < c, b >= 0
\* and the radix of c, computed without forming a * b (over the digits of b).
RECURSIVE MulQRFrom(_, _, _, _)
MulQRFrom(a, b, c, radix) ==
    IF b = 0 THEN <<0, 0>>
    ELSE LET h == MulQRFrom(a, b \div radix, c, radix)
             hi == radix * h[2]
             lo == a * (b % radix)
             t == (hi % c) + (lo % c)
         IN  <<radix * h[1] + (hi \div c) + (lo \div c) + (t \div c), t % c>>

\* <<q, r>> with a * b = q * c + r and 0 <= r < c, for a, b >= 0 and
\* 0 < c < 2^30, computed without forming a * b.
MulQR(a, b, c) ==
    LET h == MulQRFrom(a % c, b, c, Radix(c))
    IN  <<(a \div c) * b + h[1], h[2]>>

\* MulQR(a, b, c1 * c2), by c1 and then by c2.
MulQRBy(a, b, c1, c2) ==
    LET h == MulQR(a, b, c1)
    IN  <<h[1] \div c2, (h[1] % c2) * c1 + h[2]>>

\* Math.round(a * b / c) from <<q, r>> with |a| * b = q * c + r.
RoundedQuotient(a, qr, c) ==
    LET up == IF 2 * qr[2] >= c THEN 1 ELSE 0
        dn == IF 2 * qr[2] > c THEN 1 ELSE 0
    IN  IF a >= 0 THEN qr[1] + up ELSE -(qr[1] + dn)

\* Math.round(a * b / c) for b >= 0, c > 0 and any sign of a.
MulDivRound(a, b, c) == RoundedQuotient(a, MulQR(Abs(a), b, c), c)

-----------------------------------------------------------------------------
(* Exact arithmetic for the variance recursion: natural numbers of any size
   as sequences of limbs in base 10^4, the least significant first, with no
   leading zero limb (so that equal numbers are equal sequences). *)

Limb == 10^4

RECURSIVE BigTrim(_)
BigTrim(x) ==
    IF x # <<>> /\ x[Len(x)] = 0 THEN BigTrim(SubSeq(x, 1, Len(x) - 1)) ELSE x

\* The natural number n < 2^31 as limbs.
RECURSIVE BigOf(_)
BigOf(n) == IF n = 0 THEN <<>> ELSE <<n % Limb>> \o BigOf(n \div Limb)

\* x * m + carry from limb j on, for 0 <= m < 10^5.
RECURSIVE BigMulFrom(_, _, _, _)
BigMulFrom(x, m, j, carry) ==
    IF j > Len(x) THEN BigOf(carry)
    ELSE LET t == x[j] * m + carry
         IN  <<t % Limb>> \o BigMulFrom(x, m, j + 1, t \div Limb)

BigMul(x, m) == BigTrim(BigMulFrom(x, m, 1, 0))

RECURSIVE BigAddFrom(_, _, _, _)
BigAddFrom(x, y, j, carry) ==
    IF j > Len(x) /\ j > Len(y) THEN BigOf(carry)
    ELSE LET t == (IF j <= Len(x) THEN x[j] ELSE 0)
                  + (IF j <= Len(y) THEN y[j] ELSE 0) + carry
         IN  <<t % Limb>> \o BigAddFrom(x, y, j + 1, t \div Limb)

BigAdd(x, y) == BigTrim(BigAddFrom(x, y, 1, 0))

\* x * m^e
RECURSIVE BigScale(_, _, _)
BigScale(x, m, e) == IF e = 0 THEN x ELSE BigScale(BigMul(x, m), m, e - 1)

\* x \div m from limb j (the most significant first) down, rem carried in,
\* for 0 < m <= 10^5.
RECURSIVE BigDivFrom(_, _, _, _)
BigDivFrom(x, m, j, rem) ==
    IF j = 0 THEN <<>>
    ELSE BigDivFrom(x, m, j - 1, (rem * Limb + x[j]) % m) \o <<(rem * Limb + x[j]) \div m>>

BigDiv(x, m) == BigTrim(BigDivFrom(x, m, Len(x), 0))

\* x \div m^e
RECURSIVE BigShrink(_, _, _)
BigShrink(x, m, e) == IF e = 0 THEN x ELSE BigShrink(BigDiv(x, m), m, e - 1)

\* x * y from limb j of y on
RECURSIVE BigProductFrom(_, _, _)
BigProductFrom(x, y, j) ==
    IF j > Len(y) THEN <<>>
    ELSE LET rest == BigProductFrom(x, y, j + 1)
         IN  BigAdd(BigMul(x, y[j]), IF rest = <<>> THEN <<>> ELSE <<0>> \o rest)

BigProduct(x, y) == BigProductFrom(x, y, 1)

\* the sum of the numbers q[1..n]
RECURSIVE BigSumTo(_, _)
BigSumTo(q, n) == IF n = 0 THEN <<>> ELSE BigAdd(q[n], BigSumTo(q, n - 1))

\* x <= y, deciding from limb j (the most significant first) down.
RECURSIVE BigLeqFrom(_, _, _)
BigLeqFrom(x, y, j) ==
    IF j = 0 THEN TRUE
    ELSE IF x[j] # y[j] THEN x[j] < y[j]
    ELSE BigLeqFrom(x, y, j - 1)

BigLeq(x, y) ==
    IF Len(x) # Len(y) THEN Len(x) < Len(y) ELSE BigLeqFrom(x, y, Len(x))

-----------------------------------------------------------------------------
(* The uniform source and gaussianRandom (lines 305-311) *)

\* The values Math.random() returns in the model.  A sample is an index into
\* this table:  1: 0,  2: 2^-53 (the least positive result),  3: 1/4,
\* 4: 1/2,  5: 15/16.  UniformMicro is the sample in units of 1e-6.
UniformMicro == <<0, 0, 250000, 500000, 937500>>

\* Math.sqrt(-2.0 * Math.log(u)) in units of 1e-6 (never read for u = 0).
Radius == <<0, 8571674, 1665109, 1177410, 359273>>

\* Math.cos(2.0 * Math.PI * v) in units of 1e-6 (never read for v = 0).
Cosine == <<1000000, 1000000, 0, -1000000, 923880>>

Samples == DOMAIN UniformMicro

IsZero(u) == UniformMicro[u] = 0 /\ Radius[u] = 0

\* The p-th result (from 0) of Math.random(): the pattern s, repeated.
Draw(s, p) == s[(p % Len(s)) + 1]

\* Lines 308-309 with the first result taken whatever it is (u = Math.random()
\* without the loop).
TakeFirstDraw(s, p) == p

\* while (u === 0) u = Math.random(): the position of the first non-zero
\* result at or after p.
RECURSIVE SkipZero(_, _)
SkipZero(s, p) == IF IsZero(Draw(s, p)) THEN SkipZero(s, p + 1) ELSE p

\* The Box-Muller value of the pair (u, v), in units of 1e-6.
BoxMuller(u, v) == MulDivRound(Cosine[v], Radius[u], 10^6)

\* gaussianRandom() called when p results have been consumed: the value
\* returned and the number of results consumed after the call.
gaussianRandom(s, p) ==
    LET pu == SkipZero(s, p)
        pv == SkipZero(s, pu + 1)
    IN  [value |-> BoxMuller(Draw(s, pu), Draw(s, pv)), pos |-> pv + 1]

-----------------------------------------------------------------------------
(* generateLOBData (lines 79-153) *)

\* basePrice = 150.0, in units of 1e-6
BasePrice == 150 * 10^6

\* volatility = 0.0002, in units of 1e-9
Volatility == 2 * 10^5

\* spreadBase = 0.01, in units of 1e-9
SpreadBase == 10^7

\* volatilityPersistence = 0.95, in percent
VolatilityPersistence == 95

\* the floor 1.0 of the price, in units of 1e-6
PriceFloor == 10^6

\* the clamp 0.8 of the imbalance, in units of 1e-6
ImbalanceClamp == 8 * 10^5

\* for (let level = 0; level < 5; level++)
NumLevels == 5

\* i * 500: milliseconds per tick
TickMs == 500

\* Lines 95-96: the volatility carried to the next tick.
UpdateVolatility(vol, shock) ==
    RoundDiv(VolatilityPersistence * vol
             + MulDivRound((100 - VolatilityPersistence) * Volatility, Abs(shock), 10^6),
             100)

\* Line 99: gaussianRandom() * currentVolatility * currentPrice, 1e-6.
PriceChange(g, vol, price) ==
    MulDivRound(g, RoundedQuotient(price, MulQRBy(price, vol, 10^6, 10^3), 10^9), 10^6)

\* UpdatePrice without the floor.
UpdatePriceNoFloor(price, change) == price + change

\* Line 100: Math.max(currentPrice + priceChange, 1.0).
UpdatePrice(price, change) == Max(price + change, PriceFloor)

\* Line 103: spreadBase * (1 + (currentVolatility / volatility) * 2), 1e-9.
DynamicSpread(vol) == SpreadBase + MulDivRound(2 * SpreadBase, vol, Volatility)

\* Math.sin(i / 1000) in units of 1e-6, by its Taylor polynomial of degree 5
\* (exact to the unit for 0 <= i <= 1000).
SinMicro(k) ==
    LET x3 == (k * k * k) \div 6000
        x5 == ((((x3 * k) \div 1000) * k) \div 20000)
    IN  1000 * k - x3 + x5

\* Imbalance clamped from above only.
ImbalanceNoLowerClamp(k, g) ==
    Min(ImbalanceClamp, RoundDiv(3 * SinMicro(k) + 2 * g, 10))

\* Line 106: the clamped order flow imbalance, 1e-6.
Imbalance(k, g) ==
    Max(-ImbalanceClamp, Min(ImbalanceClamp, RoundDiv(3 * SinMicro(k) + 2 * g, 10)))

\* Line 113: spread / 2 + level * spread * 0.5, 1e-9.
LevelOffset(spread, level) == (spread \div 2) + level * (spread \div 2)

\* Lines 116 and 122: Math.round((currentPrice -/+ levelOffset) * 100), the
\* level price in cents; side is -1 for a bid, 1 for an ask.
LevelPrice(price, offset, side) ==
    (price \div 10^4) + RoundDiv((price % 10^4) * 1000 + side * offset, 10^7)

\* LevelSize without the minimum of 100.
LevelSizeNoMinimum(g, imbalance, level, side) ==
    RoundDiv(g * 80 + (10^7 + side * 3 * imbalance) * (20 - 3 * level), 400000)

\* Lines 117 and 123: Math.max(100, Math.round(g * 200 +
\* 500 * (1 -/+ imbalance * 0.3) * (1 - level * 0.15))).
LevelSize(g, imbalance, level, side) ==
    Max(100, RoundDiv(g * 80 + (10^7 + side * 3 * imbalance) * (20 - 3 * level),
                      400000))

\* Lines 118 and 124: Math.floor(Math.random() * 10) + 1.
OrderCount(u) == ((UniformMicro[u] * 10) \div 10^6) + 1

\* Line 131: Math.random() > 0.5 - imbalance * 0.2 ? "buy" : "sell".
TradeSide(u, imbalance) ==
    IF 10 * UniformMicro[u] > 5 * 10^6 - 2 * imbalance THEN "buy" ELSE "sell"

\* Line 146: (Math.floor(Math.random() * 100) + 1) * 100.
TradeSize(u) == (((UniformMicro[u] * 100) \div 10^6) + 1) * 100

\* Lines 112-126: the levels from `level` on, appended to acc = [bidLevels,
\* askLevels, pos]; each level draws a Gaussian and a uniform per side.
RECURSIVE GenerateLevels(_, _, _, _, _, _)
GenerateLevels(s, level, price, spread, imbalance, acc) ==
    IF level >= NumLevels THEN acc
    ELSE LET offset == LevelOffset(spread, level)
             gb == gaussianRandom(s, acc.pos)
             ga == gaussianRandom(s, gb.pos + 1)
             bid == [price |-> LevelPrice(price, offset, -1),
                     size |-> LevelSize(gb.value, imbalance, level, -1),
                     orders |-> OrderCount(Draw(s, gb.pos))]
             ask == [price |-> LevelPrice(price, offset, 1),
                     size |-> LevelSize(ga.value, imbalance, level, 1),
                     orders |-> OrderCount(Draw(s, ga.pos))]
         IN  GenerateLevels(s, level + 1, price, spread, imbalance,
                            [bidLevels |-> Append(acc.bidLevels, bid),
                             askLevels |-> Append(acc.askLevels, ask),
                             pos |-> ga.pos + 1])

RECURSIVE SumSizes(_)
SumSizes(levels) ==
    IF levels = <<>> THEN 0 ELSE Head(levels).size + SumSizes(Tail(levels))

\* Lines 91-149: one iteration of the loop, from the carried state; the
\* record pushed and the state carried on.
LoopBody(s, k, p, price, vol) ==
    LET shock == gaussianRandom(s, p)
        newVol == UpdateVolatility(vol, shock.value)
        move == gaussianRandom(s, shock.pos)
        newPrice == UpdatePrice(price, PriceChange(move.value, newVol, price))
        spread == DynamicSpread(newVol)
        flow == gaussianRandom(s, move.pos)
        imbalance == Imbalance(k, flow.value)
        lv == GenerateLevels(s, 0, newPrice, spread, imbalance,
                             [bidLevels |-> <<>>, askLevels |-> <<>>, pos |-> flow.pos])
        tradeSide == TradeSide(Draw(s, lv.pos), imbalance)
    IN  [price |-> newPrice,
         vol |-> newVol,
         pos |-> lv.pos + 2,
         record |->
            [timestamp |-> k * TickMs,
             symbol |-> "AAPL",
             midPrice |-> RoundDiv(newPrice, 100),
             spread |-> RoundDiv(spread, 10^5),
             bidLevels |-> lv.bidLevels,
             askLevels |-> lv.askLevels,
             totalBidVolume |-> SumSizes(lv.bidLevels),
             totalAskVolume |-> SumSizes(lv.askLevels),
             orderImbalance |-> RoundDiv(imbalance, 100),
             volatility |-> RoundDiv(newVol, 1000),
             lastTrade |->
                [price |-> IF tradeSide = "buy" THEN lv.askLevels[1].price
                                                ELSE lv.bidLevels[1].price,
                 size |-> TradeSize(Draw(s, lv.pos + 1)),
                 side |-> tradeSide]]]

\* EntryState with the carried state kept from the invocation before.
EntryStateKept(left) == IF left = <<0, 0>> THEN <<BasePrice, Volatility>> ELSE left

\* Lines 85-87: the locals at entry, whatever an earlier invocation left in
\* `left` = <<currentPrice, currentVolatility>>.
EntryState(left) == <<BasePrice, Volatility>>

-----------------------------------------------------------------------------
(* Inputs *)

\* length of the patterns of the uniform source
StreamPeriod == 3

\* numRecords of the runs explored for every pattern
ShortRun == 3

\* numRecords of the runs explored for the patterns that hold every draw at
\* the same value
LongRun == 400

\* The patterns: every sequence of StreamPeriod samples that is not all zero
\* (on an all-zero source gaussianRandom does not return).
Streams == {s \in [1..StreamPeriod -> Samples] : \E j \in 1..StreamPeriod : ~IsZero(s[j])}

\* Patterns of period 2 on which every Gaussian draw of a run is the same:
\* 0 (v = 1/4) or the most negative values (v = 1/2).
SteadyStreams == {<<u, v>> : u \in {2, 3}, v \in {3, 4}}

Inputs == (Streams \X (0..ShortRun)) \cup (SteadyStreams \X {LongRun})

-----------------------------------------------------------------------------
(* The generator as a state machine *)

Init ==
    /\ \E in \in Inputs : stream = in[1] /\ numRecords = in[2]
    /\ pc = "idle"
    /\ i = 0
    /\ pos = 0
    /\ currentPrice = 0
    /\ currentVolatility = 0
    /\ data = <<>>
    /\ invocation = 0
    /\ previous = <<>>
    /\ snapshots = <<>>
    /\ fpc = "off"
    /\ fi = 0
    /\ features = <<>>
    /\ AnalysisOff
    /\ MetricsOff
    /\ PairOff
    /\ BestOff

\* Lines 79-88: generateLOBData is entered (the same uniform stream is fed
\* to every invocation).
Invoke ==
    /\ pc = "idle"
    /\ pc' = "loop"
    /\ i' = 0
    /\ pos' = 0
    /\ \E entry \in {EntryState(<<currentPrice, currentVolatility>>)} :
           /\ currentPrice' = entry[1]
           /\ currentVolatility' = entry[2]
    /\ data' = <<>>
    /\ invocation' = invocation + 1
    /\ UNCHANGED <<stream, numRecords, previous>>
    /\ UNCHANGED <<featVars, anaVars, metVars, pairVars, bestVars>>

\* Lines 90-150: one iteration of the loop.
Tick ==
    /\ pc = "loop"
    /\ i < numRecords
    /\ \E body \in {LoopBody(stream, i, pos, currentPrice, currentVolatility)} :
           /\ currentPrice' = body.price
           /\ currentVolatility' = body.vol
           /\ pos' = body.pos
           /\ data' = Append(data, body.record)
    /\ i' = i + 1
    /\ UNCHANGED <<stream, numRecords, pc, invocation, previous>>
    /\ UNCHANGED <<featVars, anaVars, metVars, pairVars, bestVars>>

\* Line 152: return data.
Return ==
    /\ pc = "loop"
    /\ i >= numRecords
    /\ pc' = "returned"
    /\ UNCHANGED <<stream, numRecords, i, pos, currentPrice, currentVolatility,
                   data, invocation, previous>>
    /\ UNCHANGED <<featVars, anaVars, metVars, pairVars, bestVars>>

\* The caller keeps the result and calls generateLOBData again with the same
\* numRecords.
Again ==
    /\ pc = "returned"
    /\ invocation < 2
    /\ numRecords <= ShortRun
    /\ previous' = data
    /\ pc' = "idle"
    /\ UNCHANGED <<stream, numRecords, i, pos, currentPrice, currentVolatility,
                   data, invocation>>
    /\ UNCHANGED <<featVars, anaVars, metVars, pairVars, bestVars>>

Next == Invoke \/ Tick \/ Return \/ Again

Spec == Init /\ [][Next]_vars

-----------------------------------------------------------------------------
(* Lines 103, 113-122 and 145 at level 0, in double precision *)

(* The best bid and the best ask come from two roundings of numbers one
   spread apart, so their order can turn on the last bit of a double.  Here
   the operations of these lines are followed bit by bit: a positive double
   is a record [m, e] standing for m * 2^e, where m is a natural number in
   limbs with 2^52 <= m < 2^53, and every operation rounds its exact result
   to the nearest double, ties to the even significand (IEEE 754). *)

\* x * 2^n
BigDouble(x, n) == BigMul(BigScale(x, 2^16, n \div 16), 2^(n % 16))

\* x \div 2^n
BigHalve(x, n) == BigDiv(BigShrink(x, 2^16, n \div 16), 2^(n % 16))

TwoTo52 == BigDouble(BigOf(1), 52)

TwoTo53 == BigMul(TwoTo52, 2)

TwoTo54 == BigMul(TwoTo53, 2)

BigLess(x, y) == ~BigLeq(y, x)

\* x - y from limb j on, for x >= y.
RECURSIVE BigSubFrom(_, _, _, _)
BigSubFrom(x, y, j, borrow) ==
    IF j > Len(x) THEN <<>>
    ELSE LET t == x[j] - (IF j <= Len(y) THEN y[j] ELSE 0) - borrow
         IN  <<(t + Limb) % Limb>> \o BigSubFrom(x, y, j + 1, IF t < 0 THEN 1 ELSE 0)

BigSub(x, y) == BigTrim(BigSubFrom(x, y, 1, 0))

\* x % m from limb j (the most significant first) down, for 0 < m <= 10^5.
RECURSIVE BigModFrom(_, _, _, _)
BigModFrom(x, m, j, rem) ==
    IF j = 0 THEN rem ELSE BigModFrom(x, m, j - 1, (rem * Limb + x[j]) % m)

BigMod(x, m) == BigModFrom(x, m, Len(x), 0)

\* The number the limbs x stand for, below 2^31.
RECURSIVE BigValue(_)
BigValue(x) == IF x = <<>> THEN 0 ELSE x[1] + Limb * BigValue(Tail(x))

\* How many bits x >= 2^52 has beyond 53, at most 16.
ExcessBits(x) ==
    CHOOSE s \in 0..16 :
        /\ BigLess(BigDiv(x, 2^s), TwoTo53)
        /\ s = 0 \/ ~BigLess(BigDiv(x, 2^(s - 1)), TwoTo53)

\* The double nearest to (x + t) * 2^e, where 0 <= t < 1 and sticky says
\* whether t > 0; x > 0 has at most 16 bits beyond 53, and at least one if
\* sticky.
RECURSIVE NearestSticky(_, _, _)
NearestSticky(x, e, sticky) ==
    IF BigLess(x, TwoTo52) THEN NearestSticky(BigMul(x, 2), e - 1, sticky)
    ELSE LET s == ExcessBits(x)
             q == BigDiv(x, 2^s)
             r == BigMod(x, 2^s)
             up == \/ 2 * r > 2^s
                   \/ 2 * r = 2^s /\ (sticky \/ q[1] % 2 = 1)
             m == IF up THEN BigAdd(q, BigOf(1)) ELSE q
         IN  IF m = TwoTo53 THEN [m |-> TwoTo52, e |-> e + s + 1]
             ELSE [m |-> m, e |-> e + s]

\* The double nearest to x * 2^e.
NearestDouble(x, e) == NearestSticky(x, e, FALSE)

\* The double nearest to (x / d) * 2^e for limbs x with x \div d < 2^54: x is
\* doubled k times at once while the quotient stays below 2^54, then fewer
\* times at once, until the quotient has 54 bits.
RECURSIVE RatioFrom(_, _, _, _)
RatioFrom(x, d, e, k) ==
    IF BigLess(BigDiv(BigDouble(x, k), d), TwoTo54)
    THEN RatioFrom(BigDouble(x, k), d, e - k, k)
    ELSE IF k > 1 THEN RatioFrom(x, d, e, k \div 4)
    ELSE NearestSticky(BigDiv(x, d), e, BigMod(x, d) # 0)

\* The double a decimal literal n / d is read as, and the double n / d
\* computes to, for natural numbers 0 < n < 2^31 and 0 < d <= 10^5.
DoubleOfRatio(n, d) == RatioFrom(BigOf(n), d, 0, 16)

\* a + side * b for doubles a > b of exponents a.e >= b.e.
DoubleSum(a, b, side) ==
    LET x == BigDouble(a.m, a.e - b.e)
    IN  NearestDouble(IF side = 1 THEN BigAdd(x, b.m) ELSE BigSub(x, b.m), b.e)

\* a * k for a double a and a natural number 0 < k < 10^5.
DoubleTimes(a, k) == NearestDouble(BigMul(a.m, k), a.e)

\* a / 2
DoubleHalf(a) == [m |-> a.m, e |-> a.e - 1]

\* Math.round(a), the integer floor(a + 1/2), for a double 1 <= a < 2^31.
DoubleRound(a) ==
    BigValue(BigHalve(BigAdd(a.m, BigDouble(BigOf(1), -a.e - 1)), -a.e))

\* Line 82: the literal 0.01.
SpreadBaseDouble == DoubleOfRatio(1, 100)

\* Line 103 where 1 + (currentVolatility / volatility) * 2 is the natural
\* number factor.
SpreadDouble(factor) == DoubleTimes(SpreadBaseDouble, factor)

\* Line 113 at level 0: spread / 2 + 0 * spread * 0.5.
LevelOffsetDouble(spread) == DoubleHalf(spread)

\* Lines 116 and 122: Math.round((currentPrice -/+ levelOffset) * 100), the
\* level price in cents; side is -1 for a bid, 1 for an ask.
LevelPriceDouble(price, offset, side) ==
    CHOOSE cents \in
        {DoubleRound(product) :
            product \in {DoubleTimes(sum, 100) :
                sum \in {DoubleSum(price, offset, side)}}} : TRUE

\* Line 145: the price of the last trade.
TradePrice(tradeSide, bid, ask) == IF tradeSide = "buy" THEN ask ELSE bid

(* Inputs: a currentPrice of a whole number of cents at most NearBase cents
   from the base price, and the spread of a currentVolatility too small to
   show in line 103 (factor 1) or equal to volatility (factor 3).  Each pair
   is reached by generateLOBData: the second Gaussian draw of the first
   iteration moves the price to the cent, a first shock of -1 leaves
   currentVolatility at volatility, and shocks near 0 let it decay while the
   price stays. *)

NearBase == 20

PriceCents ==
    ((BasePrice \div 10^4) - NearBase)..((BasePrice \div 10^4) + NearBase)

SpreadFactors == {1, 3}

InitBestPrices ==
    /\ stream = <<>>
    /\ numRecords = 0
    /\ pc = "off"
    /\ i = 0
    /\ pos = 0
    /\ currentPrice = 0
    /\ currentVolatility = 0
    /\ data = <<>>
    /\ invocation = 0
    /\ previous = <<>>
    /\ snapshots = <<>>
    /\ fpc = "off"
    /\ fi = 0
    /\ features = <<>>
    /\ AnalysisOff
    /\ MetricsOff
    /\ PairOff
    /\ \E c \in PriceCents, factor \in SpreadFactors, side \in {"buy", "sell"} :
           quote = [currentPrice |-> DoubleOfRatio(c, 100),
                    spread |-> SpreadDouble(factor),
                    tradeSide |-> side]
    /\ lpc = "level 0"
    /\ best = <<>>

\* Lines 113-122 at level 0 and line 145.
PushBest ==
    /\ lpc = "level 0"
    /\ \E offset \in {LevelOffsetDouble(quote.spread)} :
           \E bid \in {LevelPriceDouble(quote.currentPrice, offset, -1)},
              ask \in {LevelPriceDouble(quote.currentPrice, offset, 1)} :
               best' = [bid |-> bid, ask |-> ask,
                        trade |-> TradePrice(quote.tradeSide, bid, ask)]
    /\ lpc' = "pushed"
    /\ UNCHANGED <<quote, genVars, featVars, anaVars, metVars, pairVars>>

NextBestPrices == PushBest

SpecBestPrices == InitBestPrices /\ [][NextBestPrices]_vars

-----------------------------------------------------------------------------
(* calculateFeatures (lines 155-202) *)

\* for (let i = 10; ...), data.slice(i - 10, i), / 10
Lookback == 10

\* The loop guard of line 158 with the bound one too small.
LoopGuardSkipsLast(k, n) == k < n - 1

\* Line 158: i < data.length.
LoopGuard(k, n) == k < n

\* Line 164, rounded as in line 187 (1e-4).
DepthImbalance(totalBid, totalAsk) ==
    IF totalBid + totalAsk > 0
    THEN MulDivRound(totalBid - totalAsk, 10^4, totalBid + totalAsk)
    ELSE 0

\* Lines 167-168, rounded as in line 188 (1e-6): mid and first are mid prices
\* in 1e-4.
PriceMomentum(mid, first) == MulDivRound(mid - first, 10^6, first)

\* q[1] + ... + q[n]
RECURSIVE SumTo(_, _)
SumTo(q, n) == IF n = 0 THEN 0 ELSE q[n] + SumTo(q, n - 1)

\* q[lo] + ... + q[hi], halving the range (sums of hundreds of terms)
RECURSIVE SumBetween(_, _, _)
SumBetween(q, lo, hi) ==
    IF lo > hi THEN 0
    ELSE IF lo = hi THEN q[lo]
    ELSE SumBetween(q, lo, (lo + hi) \div 2) + SumBetween(q, (lo + hi) \div 2 + 1, hi)

\* reduce((s, x) => s + x, 0) over the sequence q
SumSeq(q) == SumBetween(q, 1, Len(q))

\* Lines 169-170 with the sum of the squared deviations divided by one less
\* than the number of prices (the sample variance).
PriceVolatilitySample(window) ==
    LET dev == [j \in 1..Len(window) |-> window[j] - window[1]]
        sq == [j \in 1..Len(window) |-> dev[j] * dev[j]]
    IN  RoundDiv(Lookback * SumSeq(sq) - SumSeq(dev) * SumSeq(dev),
                 Lookback * (Lookback - 1))

\* Lines 169-170, rounded as in line 189 (1e-8): the population variance of
\* the 10 mid prices (1e-4) of the window, computed on their deviations from
\* the first, which leaves the variance as it is:
\* Math.round((10 * sum(dev^2) - sum(dev)^2) / 100), without forming the
\* products that exceed the integer range.
PriceVolatility(window) ==
    LET dev == [j \in 1..Len(window) |-> window[j] - window[1]]
        sq == [j \in 1..Len(window) |-> dev[j] * dev[j]]
        square == MulQR(Abs(SumSeq(dev)), Abs(SumSeq(dev)), Lookback)
        rest == SumSeq(sq) - square[1]
    IN  (rest \div Lookback)
            + (Lookback * (rest % Lookback) - square[2] + 50) \div (Lookback * Lookback)

\* Lines 176-177, rounded as in lines 191-192 (1e-4): the size-weighted
\* average price of the levels (prices in cents) over the record's total
\* volume, 0 when that is 0.
Vwap(levels, total) ==
    IF total > 0
    THEN LET qr == [j \in 1..Len(levels) |-> MulQR(levels[j].price, levels[j].size, total)]
             q == SumSeq([j \in 1..Len(levels) |-> qr[j][1]])
             r == SumSeq([j \in 1..Len(levels) |-> qr[j][2]])
         IN  100 * q + RoundDiv(100 * r, total)
    ELSE 0

\* Line 180 reading data[i + 2] where there is one: the return over the two
\* ticks ahead.
FutureReturnTwoAhead(d, k) ==
    IF k + 1 < Len(d) THEN <<d[k + 2].midPrice - d[k].midPrice, d[k].midPrice>>
    ELSE IF k < Len(d) THEN <<d[k + 1].midPrice - d[k].midPrice, d[k].midPrice>>
    ELSE <<0, 1>>

\* Line 180: (data[i + 1].midPrice - record.midPrice) / record.midPrice for
\* i < data.length - 1, else 0; the pair <<numerator, denominator>>.
FutureReturn(d, k) ==
    IF k < Len(d) THEN <<d[k + 1].midPrice - d[k].midPrice, d[k].midPrice>>
    ELSE <<0, 1>>

\* Line 197: futureReturn > 0 ? 1 : futureReturn < 0 ? -1 : 0, on the
\* unrounded return (the denominator is a mid price, positive).
FutureDirection(ret) == IF ret[1] > 0 THEN 1 ELSE IF ret[1] < 0 THEN -1 ELSE 0

\* Lines 159-198: the feature record of data[k] (k counts from 1 here, the
\* code's i = k - 1).
FeatureRecord(d, k) ==
    LET record == d[k]
        lookbackPrices == [j \in 1..Lookback |-> d[k - Lookback + j - 1].midPrice]
        ret == FutureReturn(d, k)
    IN  [timestamp |-> record.timestamp,
         midPrice |-> record.midPrice,
         spread |-> record.spread,
         orderFlowImbalance |-> record.orderImbalance,
         depthImbalance |-> DepthImbalance(record.totalBidVolume, record.totalAskVolume),
         priceMomentum |-> PriceMomentum(record.midPrice, lookbackPrices[1]),
         priceVolatility |-> PriceVolatility(lookbackPrices),
         spreadChange |-> 100 * (record.spread - d[k - 1].spread),
         vwapBid |-> Vwap(record.bidLevels, record.totalBidVolume),
         vwapAsk |-> Vwap(record.askLevels, record.totalAskVolume),
         totalBidVolume |-> record.totalBidVolume,
         totalAskVolume |-> record.totalAskVolume,
         volatility |-> record.volatility,
         futureReturn |-> MulDivRound(ret[1], 10^8, ret[2]),
         futureDirection |-> FutureDirection(ret)]

-----------------------------------------------------------------------------
(* Inputs of calculateFeatures *)

\* longest snapshot sequence given to calculateFeatures
MaxSnapshots == 12

\* Mid prices (1e-4) the sequences move around: the floor 1.0, the base
\* price 150.0 and 30000.0.
MidBases == {10^4, 15 * 10^5, 3 * 10^8}

\* The level sizes of the two books: the noise-free sizes of lines 117 and
\* 123 at imbalance 0, and an empty book.
BookSizes == {<<500, 425, 350, 275, 200>>, <<0, 0, 0, 0, 0>>}

\* A snapshot as generateLOBData shapes it: index k (from 0), mid price mid
\* (1e-4), five levels per side at 1.5 cents per level around the mid.
Snapshot(k, mid, sizes) ==
    [timestamp |-> k * TickMs,
     symbol |-> "AAPL",
     midPrice |-> mid,
     spread |-> 300 + (mid % 2),
     bidLevels |-> [l \in 1..NumLevels |->
                     [price |-> RoundDiv(2 * mid - 300 * l, 200), size |-> sizes[l], orders |-> l]],
     askLevels |-> [l \in 1..NumLevels |->
                     [price |-> RoundDiv(2 * mid + 300 * l, 200), size |-> sizes[l], orders |-> l]],
     totalBidVolume |-> SumSeq(sizes),
     totalAskVolume |-> SumSeq(sizes),
     orderImbalance |-> 0,
     volatility |-> 200,
     lastTrade |-> [price |-> RoundDiv(2 * mid + 300, 200), size |-> 100, side |-> "buy"]]

\* most mid prices of a sequence that lie above its base
MaxUps == 3

\* The shapes of a sequence of n mid prices: each at the base (0) or one unit
\* (0.0001) above it (1), at most MaxUps of them above.
Shapes(n) == {up \in [1..n -> {0, 1}] : SumTo(up, n) <= MaxUps}

\* The sequences of length n: every shape and base, one book for the whole
\* sequence.
SnapshotSequences(n) ==
    {[k \in 1..n |-> Snapshot(k - 1, base + up[k], sizes)] :
        up \in Shapes(n), base \in MidBases, sizes \in BookSizes}

-----------------------------------------------------------------------------
(* calculateFeatures as a state machine *)

InitFeatures ==
    /\ stream = <<>>
    /\ numRecords = 0
    /\ pc = "off"
    /\ i = 0
    /\ pos = 0
    /\ currentPrice = 0
    /\ currentVolatility = 0
    /\ data = <<>>
    /\ invocation = 0
    /\ previous = <<>>
    /\ \E n \in 0..MaxSnapshots : snapshots \in SnapshotSequences(n)
    /\ fpc = "idle"
    /\ fi = 0
    /\ features = <<>>
    /\ AnalysisOff
    /\ MetricsOff
    /\ PairOff
    /\ BestOff

\* Lines 155-158: calculateFeatures is entered; i = 10.
EnterFeatures ==
    /\ fpc = "idle"
    /\ fpc' = "loop"
    /\ fi' = Lookback
    /\ features' = <<>>
    /\ UNCHANGED <<snapshots, genVars, anaVars, metVars, pairVars, bestVars>>

\* Lines 158-199: one iteration of the loop.
FeatureStep ==
    /\ fpc = "loop"
    /\ LoopGuard(fi, Len(snapshots))
    /\ features' = Append(features, FeatureRecord(snapshots, fi + 1))
    /\ fi' = fi + 1
    /\ snapshots' = AfterSlice(snapshots, fi - Lookback)
    /\ UNCHANGED <<fpc, genVars, anaVars, metVars, pairVars, bestVars>>

\* Line 201: return features.
ReturnFeatures ==
    /\ fpc = "loop"
    /\ ~LoopGuard(fi, Len(snapshots))
    /\ fpc' = "returned"
    /\ UNCHANGED <<snapshots, fi, features, genVars, anaVars, metVars, pairVars, bestVars>>

NextFeatures == EnterFeatures \/ FeatureStep \/ ReturnFeatures

SpecFeatures == InitFeatures /\ [][NextFeatures]_vars

-----------------------------------------------------------------------------
(* calculateFeatures on mid prices a cent apart *)

\* a cent, in units of 1e-4 (level prices are rounded to cents, lines 116
\* and 122)
Cent == 100

\* The sequences of length n around the base price 150.0: every shape, the
\* mid prices above the base a cent above it.
CentSequences(n) ==
    {[k \in 1..n |-> Snapshot(k - 1, 15 * 10^5 + Cent * up[k], <<500, 425, 350, 275, 200>>)] :
        up \in Shapes(n)}

InitLookback ==
    /\ stream = <<>>
    /\ numRecords = 0
    /\ pc = "off"
    /\ i = 0
    /\ pos = 0
    /\ currentPrice = 0
    /\ currentVolatility = 0
    /\ data = <<>>
    /\ invocation = 0
    /\ previous = <<>>
    /\ \E n \in 0..MaxSnapshots : snapshots \in CentSequences(n)
    /\ fpc = "idle"
    /\ fi = 0
    /\ features = <<>>
    /\ AnalysisOff
    /\ MetricsOff
    /\ PairOff
    /\ BestOff

SpecLookback == InitLookback /\ [][NextFeatures]_vars

-----------------------------------------------------------------------------
(* calculateFeatures called twice, on two snapshot sequences of one length *)

\* longest snapshot sequence of the two calls: with 13 snapshots every
\* feature leaves a snapshot out of its window
MaxPairSnapshots == 13

\* The snapshots of a shape around the base price 150.0, the mid prices above
\* the base a cent above it.
ShapedSnapshots(up) ==
    [k \in 1..Len(up) |->
        Snapshot(k - 1, 15 * 10^5 + Cent * up[k], <<500, 425, 350, 275, 200>>)]

\* The shape with its entry j changed, and unchanged for j = 0.
Changed(up, j) == [k \in 1..Len(up) |-> IF k = j THEN 1 - up[k] ELSE up[k]]

\* Two sequences of one length: a shape with at most one mid price above the
\* base, and the same with the snapshot at one index, or at none, changed.
InitFeaturesTwice ==
    /\ stream = <<>>
    /\ numRecords = 0
    /\ pc = "off"
    /\ i = 0
    /\ pos = 0
    /\ currentPrice = 0
    /\ currentVolatility = 0
    /\ data = <<>>
    /\ invocation = 0
    /\ previous = <<>>
    /\ \E n \in 0..MaxPairSnapshots :
           \E up \in {u \in [1..n -> {0, 1}] : SumTo(u, n) <= 1}, j \in 0..n :
               /\ snapshots = ShapedSnapshots(up)
               /\ alternate = <<ShapedSnapshots(Changed(up, j))>>
    /\ fpc = "idle"
    /\ fi = 0
    /\ features = <<>>
    /\ AnalysisOff
    /\ MetricsOff
    /\ firstCall = <<>>
    /\ BestOff

\* The first call has returned: its argument and result are kept, and the
\* function is called on the other sequence.
ExtractAlternate ==
    /\ fpc = "returned"
    /\ alternate # <<>>
    /\ firstCall = <<>>
    /\ firstCall' = <<[snapshots |-> snapshots, features |-> features]>>
    /\ snapshots' = alternate[1]
    /\ fpc' = "idle"
    /\ fi' = 0
    /\ features' = <<>>
    /\ UNCHANGED <<alternate, genVars, anaVars, metVars, bestVars>>

NextFeaturesTwice == NextFeatures \/ ExtractAlternate

SpecFeaturesTwice == InitFeaturesTwice /\ [][NextFeaturesTwice]_vars

-----------------------------------------------------------------------------
(* runTimeSeriesAnalysis (lines 204-303): prices, returns, the ARIMA-like
   loop and the GARCH-like recursion.

   Returns are kept in whole percents.  The conditional variance is kept
   exactly, as the fraction num / (10^5 * BetaDen^exp) with num a number of
   any size and exp the number of updates made so far.  A square root is
   kept by its radicand. *)

\* Line 205
Prices(f) == [k \in 1..Len(f) |-> f[k].midPrice]

\* A return for every price, the last one 0 (as of prices.map in place of
\* prices.slice(1).map, the last price compared with itself).
ReturnsOfEveryPrice(f) ==
    [k \in 1..Len(f) |->
        IF k < Len(f)
        THEN MulDivRound(100 * (f[k + 1].midPrice - f[k].midPrice), 1, f[k].midPrice)
        ELSE 0]

\* Line 206: returns[i] = (prices[i + 1] - prices[i]) / prices[i], in percent;
\* Returns(f)[k] is the code's returns[k - 1].
Returns(f) ==
    [k \in 1..Max(Len(f) - 1, 0) |->
        MulDivRound(100 * (f[k + 1].midPrice - f[k].midPrice), 1, f[k].midPrice)]

\* Line 208 with Math.round in place of Math.floor.
TrainSizeRounded(n) == (8 * n + 5) \div 10

\* Line 208: Math.floor(prices.length * 0.8)
TrainSize(n) == (8 * n) \div 10

\* Line 245: returns.slice(0, trainSize)
TrainReturns(f) == SubSeq(Returns(f), 1, Min(TrainSize(Len(f)), Len(Returns(f))))

\* NaN, the value of 0 / 0 and of arithmetic with an undefined operand: a
\* number apart from every number the model computes.
NaN == -2147483647

\* a - b
Minus(a, b) == IF a = NaN \/ b = NaN THEN NaN ELSE a - b

\* a > b, false when an operand is NaN or undefined
Greater(a, b) == a # NaN /\ b # NaN /\ a > b

\* Lines 217-221: the sum of the changes within history.slice(-10).
AvgChangeSum(h) ==
    LET tail == SubSeq(h, Max(1, Len(h) - 9), Len(h))
    IN  SumSeq([j \in 1..Max(Len(tail) - 1, 0) |-> tail[j + 1] - tail[j]])

\* Lines 216-231 with history.push(actual) of line 233 moved before the
\* prediction: the point is predicted from a history that holds its actual.
ArimaPointPeeks(f, h, k) ==
    LET actual == f[k].midPrice
        seen == Append(h, actual)
        predicted == 90 * seen[Len(seen)] + 7 * AvgChangeSum(seen)
    IN  [timestamp |-> f[k].timestamp,
         actual |-> actual,
         predicted |-> predicted,
         error |-> Minus(90 * actual, predicted)]

\* Lines 216-231: the point pushed for features[k] (k from 1) given history;
\* predicted = lastPrice + (sum / 9) * 0.7 and error are in 1/90 of the price
\* unit, and NaN when history is empty.
ArimaPoint(f, h, k) ==
    LET actual == f[k].midPrice
        predicted == IF h = <<>> THEN NaN ELSE 90 * h[Len(h)] + 7 * AvgChangeSum(h)
    IN  [timestamp |-> f[k].timestamp,
         actual |-> actual,
         predicted |-> predicted,
         error |-> Minus(90 * actual, predicted)]

\* Line 239: omega = 0.00001, in 1e-5
Omega == 1

\* Line 238: condVar = 0.0001, in 1e-5
InitialCondVar == 10

\* Line 241: beta = 0.85 = BetaNum / BetaDen
BetaNum == 17

BetaDen == 20

\* Line 238 with condVar starting at 0.
SeedCondVarZero == [num |-> BigOf(0), exp |-> 0]

\* Line 238
SeedCondVar == [num |-> BigOf(InitialCondVar), exp |-> 0]

\* Lines 240, 246, 259: alpha * r * r with alpha = 0.1, in 1e-5, for r in
\* percent: 0.1 * (r / 100)^2 * 10^5 = r^2.
AlphaSquare(r) == r * r

\* Lines 246 and 259 without the decay beta of the previous variance.
GarchUpdateNoDecay(c, r) ==
    [num |-> BigAdd(BigScale(BigOf(Omega + AlphaSquare(r)), BetaDen, c.exp + 1),
                    BigMul(c.num, BetaDen)),
     exp |-> c.exp + 1]

\* Lines 246 and 259: omega + alpha * r * r + beta * condVar
GarchUpdate(c, r) ==
    [num |-> BigAdd(BigScale(BigOf(Omega + AlphaSquare(r)), BetaDen, c.exp + 1),
                    BigMul(c.num, BetaNum)),
     exp |-> c.exp + 1]

\* Line 249: Math.sqrt
Sqrt(c) == [radicand |-> c]

\* Lines 249-257 with the update of line 259 moved before the push: the point
\* carries the variance that returns[k - 1] has entered.
GarchPointAfterUpdate(f, c, k) ==
    [timestamp |-> IF k + 1 <= Len(f) THEN f[k + 1].timestamp ELSE f[k].timestamp,
     actualVolatility |-> Abs(Returns(f)[k]),
     forecastVolatility |-> Sqrt(GarchUpdate(c, Returns(f)[k])),
     conditionalVariance |-> GarchUpdate(c, Returns(f)[k])]

\* Lines 249-257: the point pushed for returns[k - 1] (k from 1);
\* features[i + 1]?.timestamp || features[i].timestamp.
GarchPoint(f, c, k) ==
    [timestamp |-> IF k + 1 <= Len(f) THEN f[k + 1].timestamp ELSE f[k].timestamp,
     actualVolatility |-> Abs(Returns(f)[k]),
     forecastVolatility |-> Sqrt(c),
     conditionalVariance |-> c]

\* a <= b for two variances
VarLeq(a, b) ==
    LET e == Max(a.exp, b.exp)
    IN  BigLeq(BigScale(a.num, BetaDen, e - a.exp), BigScale(b.num, BetaDen, e - b.exp))

VarEq(a, b) == VarLeq(a, b) /\ VarLeq(b, a)

\* Line 249: the value of Math.sqrt(c) in 1e-6, cut to 6 decimals: the
\* largest v with v^2 <= target, found bit by bit; target is c in 1e-12.
BigSquare(v) == IF v < 2^15 THEN BigOf(v * v) ELSE BigProduct(BigOf(v), BigOf(v))

RECURSIVE SqrtBits(_, _, _)
SqrtBits(target, v, bit) ==
    IF bit < 0 THEN v
    ELSE IF BigLeq(BigSquare(v + 2^bit), target)
         THEN SqrtBits(target, v + 2^bit, bit - 1)
         ELSE SqrtBits(target, v, bit - 1)

SqrtMicro(c) ==
    SqrtBits(BigDiv(BigShrink(BigScale(c.num, Limb, 3), BetaDen, c.exp), 10^5), 0, 20)

\* Line 264: features.slice(-500)
RegimeWindow == 500

\* Lines 264-268: the points of features.slice(-500) given the sum of the
\* volatilities avgVol is made of and their number, compared without
\* dividing: v > avgVol * 1.5 iff 2 * n * v > 3 * sum, and v < avgVol * 0.5
\* iff 2 * n * v < sum.
RegimePoints(f, sum, n) ==
    LET first == Max(Len(f) - RegimeWindow, 0)
    IN  [k \in 1..(Len(f) - first) |->
            LET v == f[first + k].volatility
            IN  [timestamp |-> f[first + k].timestamp,
                 volatility |-> v,
                 regime |-> IF 2 * n * v > 3 * sum THEN "high"
                            ELSE IF 2 * n * v < sum THEN "low"
                            ELSE "normal"]]

\* Lines 263-268 with avgVol taken over the window features.slice(-500) only.
VolatilityRegimesWindowMean(f) ==
    LET first == Max(Len(f) - RegimeWindow, 0)
    IN  CHOOSE points \in
            {RegimePoints(f, sum, Len(f) - first) :
                sum \in {SumBetween([k \in 1..Len(f) |-> f[k].volatility], first + 1, Len(f))}} :
            TRUE

\* Lines 263-268: avgVol is the sum of the volatilities of all the features
\* over features.length.
VolatilityRegimes(f) ==
    CHOOSE points \in
        {RegimePoints(f, sum, Len(f)) :
            sum \in {SumSeq([k \in 1..Len(f) |-> f[k].volatility])}} :
        TRUE

\* num / den as the code's number: NaN for 0 / 0 and for a NaN operand,
\* otherwise the fraction; zero says that num is 0.
Quotient(num, zero, den, undefined) ==
    [nan |-> undefined \/ (zero /\ den = 0), num |-> num, den |-> den]

\* Lines 277-282 with the loop starting at i = 0.
CorrectDirFromZero(actual, predicted) ==
    Cardinality({k \in 1..Len(actual) :
        IF k = 1 THEN TRUE
        ELSE Greater(actual[k], actual[k - 1]) = Greater(predicted[k], predicted[k - 1])})

\* Lines 277-282: the steps on which actual[i] > actual[i - 1] and
\* predicted[i] > predicted[i - 1] are both true or both false.
CorrectDir(actual, predicted) ==
    Cardinality({k \in 2..Len(actual) :
        Greater(actual[k], actual[k - 1]) = Greater(predicted[k], predicted[k - 1])})

\* Line 273 with the sum divided by n - 1.
MeanSquareOverNMinusOne(sum, n, undefined) == Quotient(sum, sum = <<>>, n - 1, undefined)

\* Line 273: the sum of the squares over n
MeanSquare(sum, n, undefined) == Quotient(sum, sum = <<>>, n, undefined)

\* Lines 271-286: calcMetrics on two series of numbers in one unit u: mse in
\* u^2 with a numerator of any size, rmse by its radicand, mae in u,
\* directionAccuracy = (correctDir / (n - 1)) * 100.
calcMetrics(actual, predicted) ==
    LET n == Len(actual)
        diff == [k \in 1..n |-> Minus(actual[k], predicted[k])]
        undefined == \E k \in 1..n : diff[k] = NaN
        size == [k \in 1..n |-> IF diff[k] = NaN THEN 0 ELSE Abs(diff[k])]
        squares == BigSumTo([k \in 1..n |-> BigProduct(BigOf(size[k]), BigOf(size[k]))], n)
        mse == MeanSquare(squares, n, undefined)
        correctDir == CorrectDir(actual, predicted)
    IN  [mse |-> mse,
         rmse |-> Sqrt(mse),
         mae |-> Quotient(SumSeq(size), SumSeq(size) = 0, n, undefined),
         directionAccuracy |-> Quotient(100 * correctDir, correctDir = 0, n - 1, FALSE)]

\* Line 298: garchResults.map((r) => r.forecastVolatility), the first n values
RECURSIVE ForecastValues(_, _)
ForecastValues(garch, n) ==
    IF n = 0 THEN <<>>
    ELSE Append(ForecastValues(garch, n - 1),
                SqrtMicro(garch[n].forecastVolatility.radicand))

\* Lines 291-300: the metrics of the two streams; the price series in 1/90 of
\* 1e-4, the volatility series in 1e-6.
Metrics(arima, garch) ==
    [arima |-> calcMetrics([k \in 1..Len(arima) |-> 90 * arima[k].actual],
                           [k \in 1..Len(arima) |-> arima[k].predicted]),
     garch |-> calcMetrics([k \in 1..Len(garch) |-> 10^4 * garch[k].actualVolatility],
                           ForecastValues(garch, Len(garch)))]

-----------------------------------------------------------------------------
(* Inputs of runTimeSeriesAnalysis *)

\* most feature records given to runTimeSeriesAnalysis
MaxFeatures == 13

\* The mid prices (1e-4) of the analysed sequences: 1.0 and, where the shape
\* has a 1, 2.0, so that every return is a whole percent.
AnalysisMid(up) == 10^4 * (1 + up)

\* Lines 155-201: calculateFeatures as a function of its argument.
CalculateFeatures(d) ==
    [k \in 1..Max(Len(d) - Lookback, 0) |-> FeatureRecord(d, k + Lookback)]

\* most mid prices of an analysed sequence that are 2.0
MaxMoves == 2

\* The feature sequences of length n: calculateFeatures of Lookback snapshots
\* at 1.0 followed by n snapshots of every shape with at most MaxMoves at 2.0.
FeatureSequences(n) ==
    {CalculateFeatures(
        [k \in 1..(Lookback + n) |->
            Snapshot(k - 1,
                     AnalysisMid(IF k <= Lookback THEN 0 ELSE up[k - Lookback]),
                     <<500, 425, 350, 275, 200>>)]) :
        up \in {u \in [1..n -> {0, 1}] : SumTo(u, n) <= MaxMoves}}

-----------------------------------------------------------------------------
(* runTimeSeriesAnalysis as a state machine *)

\* runTimeSeriesAnalysis about to be called on a feature sequence.
AnalysisEntry ==
    /\ stream = <<>>
    /\ numRecords = 0
    /\ pc = "off"
    /\ i = 0
    /\ pos = 0
    /\ currentPrice = 0
    /\ currentVolatility = 0
    /\ data = <<>>
    /\ invocation = 0
    /\ previous = <<>>
    /\ snapshots = <<>>
    /\ fpc = "off"
    /\ fi = 0
    /\ features = <<>>
    /\ \E n \in 0..MaxFeatures : afeatures \in FeatureSequences(n)
    /\ apc = "idle"
    /\ ai = 0
    /\ history = <<>>
    /\ arimaResults = <<>>
    /\ condVar = NoCondVar
    /\ garchResults = <<>>
    /\ volatilityRegimes = <<>>
    /\ metrics = NoMetrics
    /\ MetricsOff

InitAnalysis == AnalysisEntry /\ PairOff /\ BestOff

\* Lines 204-214: the function is entered; i = trainSize.
EnterAnalysis ==
    /\ apc = "idle"
    /\ apc' = "arima"
    /\ ai' = TrainSize(Len(afeatures))
    /\ history' = SubSeq(Prices(afeatures), 1, TrainSize(Len(afeatures)))
    /\ arimaResults' = <<>>
    /\ UNCHANGED <<afeatures, condVar, garchResults,
                   volatilityRegimes, metrics, genVars, featVars, metVars, pairVars, bestVars>>

\* Lines 214-234: one iteration of the ARIMA-like loop.
ArimaStep ==
    /\ apc = "arima"
    /\ ai < Len(afeatures)
    /\ arimaResults' = Append(arimaResults, ArimaPoint(afeatures, history, ai + 1))
    /\ history' = Append(history, afeatures[ai + 1].midPrice)
    /\ ai' = ai + 1
    /\ UNCHANGED <<afeatures, apc, condVar, garchResults,
                   volatilityRegimes, metrics, genVars, featVars, metVars, pairVars, bestVars>>

\* Lines 237-245: the loop is left; condVar takes its initial value.
StartWarmup ==
    /\ apc = "arima"
    /\ ai >= Len(afeatures)
    /\ apc' = "warmup"
    /\ ai' = 0
    /\ condVar' = SeedCondVar
    /\ garchResults' = <<>>
    /\ UNCHANGED <<afeatures, history, arimaResults,
                   volatilityRegimes, metrics, genVars, featVars, metVars, pairVars, bestVars>>

\* Line 246: one call of the forEach callback on trainReturns.
WarmupStep ==
    /\ apc = "warmup"
    /\ ai < Len(TrainReturns(afeatures))
    /\ condVar' = GarchUpdate(condVar, TrainReturns(afeatures)[ai + 1])
    /\ ai' = ai + 1
    /\ UNCHANGED <<afeatures, apc, history, arimaResults, garchResults,
                   volatilityRegimes, metrics, genVars, featVars, metVars, pairVars, bestVars>>

\* Line 248: the forecast loop is entered; i = trainSize.
StartForecast ==
    /\ apc = "warmup"
    /\ ai >= Len(TrainReturns(afeatures))
    /\ apc' = "garch"
    /\ ai' = TrainSize(Len(afeatures))
    /\ UNCHANGED <<afeatures, history, arimaResults, condVar, garchResults,
                   volatilityRegimes, metrics, genVars, featVars, metVars, pairVars, bestVars>>

\* Lines 248-260: one iteration of the forecast loop: the point is pushed with
\* the variance before returns[i] enters it.
ForecastStep ==
    /\ apc = "garch"
    /\ ai < Len(Returns(afeatures))
    /\ garchResults' = Append(garchResults, GarchPoint(afeatures, condVar, ai + 1))
    /\ condVar' = GarchUpdate(condVar, Returns(afeatures)[ai + 1])
    /\ ai' = ai + 1
    /\ UNCHANGED <<afeatures, apc, history, arimaResults,
                   volatilityRegimes, metrics, genVars, featVars, metVars, pairVars, bestVars>>

\* Line 248: the forecast loop is left.
EndForecast ==
    /\ apc = "garch"
    /\ ai >= Len(Returns(afeatures))
    /\ apc' = "forecast done"
    /\ UNCHANGED <<afeatures, ai, history, arimaResults, condVar, garchResults,
                   volatilityRegimes, metrics, genVars, featVars, metVars, pairVars, bestVars>>

\* Lines 263-268: the regimes of the last RegimeWindow features.
ClassifyRegimes ==
    /\ apc = "forecast done"
    /\ apc' = "regimes done"
    /\ volatilityRegimes' = VolatilityRegimes(afeatures)
    /\ afeatures' = AfterSlice(afeatures, Max(Len(afeatures) - RegimeWindow, 0))
    /\ UNCHANGED <<ai, history, arimaResults, condVar, garchResults, metrics,
                   genVars, featVars, metVars, pairVars, bestVars>>

\* Lines 288-302: the metrics are computed and the results returned.
ReturnAnalysis ==
    /\ apc = "regimes done"
    /\ apc' = "returned"
    /\ metrics' = Metrics(arimaResults, garchResults)
    /\ UNCHANGED <<afeatures, ai, history, arimaResults, condVar, garchResults,
                   volatilityRegimes, genVars, featVars, metVars, pairVars, bestVars>>

NextAnalysis ==
    \/ EnterAnalysis
    \/ ArimaStep
    \/ StartWarmup
    \/ WarmupStep
    \/ StartForecast
    \/ ForecastStep
    \/ EndForecast
    \/ ClassifyRegimes
    \/ ReturnAnalysis

SpecAnalysis == InitAnalysis /\ [][NextAnalysis]_vars

-----------------------------------------------------------------------------
(* runTimeSeriesAnalysis called twice, on two feature sequences of one length *)

\* g has the mid prices of f over the training region (the first TrainSize
\* indices): it differs from f, if at all, first at a test index.
SameTraining(f, g) ==
    \A k \in 1..TrainSize(Len(f)) : g[k].midPrice = f[k].midPrice

\* runTimeSeriesAnalysis about to be called on first, and then on second.
AnalysisEntryTwice(first, second) ==
    /\ stream = <<>>
    /\ numRecords = 0
    /\ pc = "off"
    /\ i = 0
    /\ pos = 0
    /\ currentPrice = 0
    /\ currentVolatility = 0
    /\ data = <<>>
    /\ invocation = 0
    /\ previous = <<>>
    /\ snapshots = <<>>
    /\ fpc = "off"
    /\ fi = 0
    /\ features = <<>>
    /\ afeatures = first
    /\ apc = "idle"
    /\ ai = 0
    /\ history = <<>>
    /\ arimaResults = <<>>
    /\ condVar = NoCondVar
    /\ garchResults = <<>>
    /\ volatilityRegimes = <<>>
    /\ metrics = NoMetrics
    /\ MetricsOff
    /\ alternate = <<second>>
    /\ firstCall = <<>>
    /\ BestOff

InitAnalysisTwice ==
    \E n \in 0..MaxFeatures :
        \E f, g \in FeatureSequences(n) : SameTraining(f, g) /\ AnalysisEntryTwice(f, g)

\* The first call has returned: its argument and results are kept, and the
\* function is called on the other sequence.
AnalyseAlternate ==
    /\ apc = "returned"
    /\ alternate # <<>>
    /\ firstCall = <<>>
    /\ firstCall' = <<[features |-> afeatures,
                       arimaResults |-> arimaResults,
                       garchResults |-> garchResults,
                       volatilityRegimes |-> volatilityRegimes,
                       metrics |-> metrics]>>
    /\ afeatures' = alternate[1]
    /\ apc' = "idle"
    /\ ai' = 0
    /\ history' = <<>>
    /\ arimaResults' = <<>>
    /\ condVar' = NoCondVar
    /\ garchResults' = <<>>
    /\ volatilityRegimes' = <<>>
    /\ metrics' = NoMetrics
    /\ UNCHANGED <<alternate, genVars, featVars, metVars, bestVars>>

NextAnalysisTwice == NextAnalysis \/ AnalyseAlternate

SpecAnalysisTwice == InitAnalysisTwice /\ [][NextAnalysisTwice]_vars

-----------------------------------------------------------------------------
(* The regime block (lines 262-268) run on its own: it reads features only,
   and a run of the whole function on more than RegimeWindow features is out
   of reach of the exact variance recursion. *)

\* The volatilities (1e-6) of the classified sequences: 0.0001 and 0.0003,
\* so that a sequence with as many of the one as of the other has the mean
\* 0.0002 and both values on a threshold.
RegimeVolatilities == {100, 300}

\* The short sequences have up to this many features, of every volatility.
MaxShortFeatures == 5

\* The long sequences have from RegimeWindow - 1 up to this many more than
\* RegimeWindow features.
MaxBeyondWindow == 2

\* The volatilities a long sequence repeats.
LongPatterns ==
    {<<300, 300, 100, 100>>, <<100, 100, 300, 300>>, <<100, 300, 300, 100>>,
     <<100, 100, 100, 300>>, <<100, 300, 300, 300>>, <<100, 100, 100, 100>>}

\* The snapshots lo .. hi (from 1) of a sequence at the mid price 1.0: the
\* first Lookback with the volatility 0.0002, the ones after them with the
\* pattern's, repeated.
RECURSIVE RegimeSnapshots(_, _, _)
RegimeSnapshots(pattern, lo, hi) ==
    IF lo > hi THEN <<>>
    ELSE IF lo = hi
    THEN <<[Snapshot(lo - 1, AnalysisMid(0), <<500, 425, 350, 275, 200>>)
               EXCEPT !.volatility =
                   IF lo <= Lookback THEN 200
                   ELSE pattern[((lo - Lookback - 1) % Len(pattern)) + 1]]>>
    ELSE RegimeSnapshots(pattern, lo, (lo + hi) \div 2)
             \o RegimeSnapshots(pattern, (lo + hi) \div 2 + 1, hi)

\* A volatility of the records q lies on a threshold: line 263 sums in
\* doubles, and over hundreds of terms the rounding of the sum decides such a
\* comparison.
OnThreshold(q) ==
    \E sum \in {SumSeq([k \in 1..Len(q) |-> q[k].volatility])} :
        \E k \in 1..Len(q) :
            \/ 2 * Len(q) * q[k].volatility = 3 * sum
            \/ 2 * Len(q) * q[k].volatility = sum

\* The short sequences of n features: calculateFeatures of Lookback + n
\* snapshots, for every sequence of n volatilities (the sum of line 263 is
\* exact to the comparison on them).
ShortSequences(n) ==
    {CalculateFeatures(d) :
        d \in {RegimeSnapshots(pattern, 1, Lookback + n) :
                  pattern \in [1..n -> RegimeVolatilities]}}

\* The long sequences of n features, those left out on which a volatility of
\* a feature (line 195: that of its snapshot) lies on a threshold.
LongSequences(n) ==
    {CalculateFeatures(d) :
        d \in {q \in {RegimeSnapshots(pattern, 1, Lookback + n) : pattern \in LongPatterns} :
                  ~OnThreshold(SubSeq(q, Lookback + 1, Len(q)))}}

InitRegimes ==
    /\ stream = <<>>
    /\ numRecords = 0
    /\ pc = "off"
    /\ i = 0
    /\ pos = 0
    /\ currentPrice = 0
    /\ currentVolatility = 0
    /\ data = <<>>
    /\ invocation = 0
    /\ previous = <<>>
    /\ snapshots = <<>>
    /\ fpc = "off"
    /\ fi = 0
    /\ features = <<>>
    /\ \/ \E n \in 0..MaxShortFeatures : afeatures \in ShortSequences(n)
       \/ \E n \in (RegimeWindow - 1)..(RegimeWindow + MaxBeyondWindow) :
              afeatures \in LongSequences(n)
    /\ apc = "regimes alone"
    /\ ai = 0
    /\ history = <<>>
    /\ arimaResults = <<>>
    /\ condVar = NoCondVar
    /\ garchResults = <<>>
    /\ volatilityRegimes = <<>>
    /\ metrics = NoMetrics
    /\ MetricsOff
    /\ PairOff
    /\ BestOff

\* Lines 263-268
RegimesAlone ==
    /\ apc = "regimes alone"
    /\ apc' = "regimes alone done"
    /\ volatilityRegimes' = VolatilityRegimes(afeatures)
    /\ afeatures' = AfterSlice(afeatures, Max(Len(afeatures) - RegimeWindow, 0))
    /\ UNCHANGED <<ai, history, arimaResults, condVar, garchResults, metrics,
                   genVars, featVars, metVars, pairVars, bestVars>>

NextRegimes == RegimesAlone

SpecRegimes == InitRegimes /\ [][NextRegimes]_vars

-----------------------------------------------------------------------------
(* calcMetrics (lines 271-286) called on its own *)

\* longest series given to calcMetrics
MaxPoints == 4

\* The values of the actual series (in tenths) and what the predicted series
\* adds to them.
ActualValues == {10, 20}

Offsets == {-1, 0, 1}

\* The pairs of series of length n.
SeriesPairs(n) ==
    {<<actual, [k \in 1..n |-> actual[k] + off[k]]>> :
        actual \in [1..n -> ActualValues], off \in [1..n -> Offsets]}

\* actual = [1, 2, 3, 2] and predicted = [1.1, 1.9, 3.2, 1.8], in tenths
ScenarioSeries == << <<10, 20, 30, 20>>, <<11, 19, 32, 18>> >>

InitMetrics ==
    /\ stream = <<>>
    /\ numRecords = 0
    /\ pc = "off"
    /\ i = 0
    /\ pos = 0
    /\ currentPrice = 0
    /\ currentVolatility = 0
    /\ data = <<>>
    /\ invocation = 0
    /\ previous = <<>>
    /\ snapshots = <<>>
    /\ fpc = "off"
    /\ fi = 0
    /\ features = <<>>
    /\ AnalysisOff
    /\ \/ \E n \in 0..MaxPoints : series \in SeriesPairs(n)
       \/ series = ScenarioSeries
    /\ mpc = "idle"
    /\ result = NoMetrics
    /\ PairOff
    /\ BestOff

\* Lines 271-286: the call.
CallMetrics ==
    /\ mpc = "idle"
    /\ mpc' = "returned"
    /\ result' = calcMetrics(series[1], series[2])
    /\ UNCHANGED <<series, genVars, featVars, anaVars, pairVars, bestVars>>

NextMetrics == CallMetrics

SpecMetrics == InitMetrics /\ [][NextMetrics]_vars

-----------------------------------------------------------------------------
(* calculateFeatures and runTimeSeriesAnalysis, each called on its input *)

\* The snapshot sequences with a book on both sides.
InitStages ==
    \/ InitFeatures /\ \A k \in 1..Len(snapshots) : snapshots[k].totalBidVolume > 0
    \/ InitAnalysis

NextStages == NextFeatures \/ NextAnalysis

SpecStages == InitStages /\ [][NextStages]_vars

-----------------------------------------------------------------------------
(* Claims about generateLOBData *)

Records == {data[k] : k \in 1..Len(data)}

StrictlyDecreasing(levels) ==
    \A a \in 1..(Len(levels) - 1) : levels[a].price > levels[a + 1].price

StrictlyIncreasing(levels) ==
    \A a \in 1..(Len(levels) - 1) : levels[a].price < levels[a + 1].price

\* C1: in every snapshot pushed, the reported (2-decimal) bid prices strictly
\* decrease and the reported ask prices strictly increase with the level.
C1_LevelPricesStrictlyOrdered ==
    \A r \in Records :
        StrictlyDecreasing(r.bidLevels) /\ StrictlyIncreasing(r.askLevels)

\* C2: the carried price never falls below 1.0, and every snapshot's
\* midPrice (1e-4) is at least 1.0.
C2_PriceAtLeastFloor ==
    /\ pc # "idle" => currentPrice >= PriceFloor
    /\ \A r \in Records : r.midPrice >= 10^4

\* C2 witness: two snapshots in a row at the floor, the second after a
\* negative move: the clamp of line 100 acted.
C2_FloorReached ==
    /\ Len(data) >= 2
    /\ currentPrice = PriceFloor
    /\ data[Len(data)].midPrice = 10^4
    /\ data[Len(data) - 1].midPrice = 10^4
    /\ gaussianRandom(stream, gaussianRandom(stream, pos).pos).value < 0

\* C3: the volatility field (6 decimals) of every snapshot is strictly
\* greater than 0.
C3_ReportedVolatilityPositive == \A r \in Records : r.volatility > 0

AllLevels(r) ==
    {r.bidLevels[a] : a \in 1..Len(r.bidLevels)}
        \cup {r.askLevels[a] : a \in 1..Len(r.askLevels)}

\* C4: every snapshot has exactly 5 bid and 5 ask levels, every size is an
\* integer >= 100 and every order count an integer in 1..10.
C4_LevelShape ==
    \A r \in Records :
        /\ Len(r.bidLevels) = 5
        /\ Len(r.askLevels) = 5
        /\ \A l \in AllLevels(r) : l.size \in Int /\ l.size >= 100 /\ l.orders \in 1..10

\* C4 witness: a snapshot where the minimum of 100 was taken for one size
\* (the most negative noise draw) and not for another, with an order count
\* of 10.
C4_MinimumSizeTaken ==
    \E r \in Records :
        /\ \E l \in AllLevels(r) : l.size = 100
        /\ \E l \in AllLevels(r) : l.size > 100
        /\ \E l \in AllLevels(r) : l.orders = 10

\* C5: the orderImbalance field (1e-4) of every snapshot lies in
\* [-0.8, 0.8].
C5_ImbalanceInRange ==
    \A r \in Records : r.orderImbalance >= -8000 /\ r.orderImbalance <= 8000

\* C5 witness: one run with a snapshot clamped at -0.8 and one clamped at 0.8.
C5_BothClampsTaken ==
    /\ \E r \in Records : r.orderImbalance = -8000
    /\ \E r \in Records : r.orderImbalance = 8000

\* C6: a second invocation with the same numRecords, fed the same uniform
\* stream, pushes the same snapshots as the first and returns the same
\* sequence.
C6_Deterministic ==
    invocation = 2 =>
        /\ Len(data) <= Len(previous)
        /\ \A k \in 1..Len(data) : data[k] = previous[k]
        /\ pc = "returned" => data = previous

\* C6 witness: the second invocation has returned at least two snapshots.
C6_SecondRunReturned ==
    invocation = 2 /\ pc = "returned" /\ Len(data) >= 2 /\ Len(previous) >= 2

\* C13: generateLOBData called with a record count below 1 reports
\* InvalidConfig: it does not return a snapshot sequence.
C13_InvalidConfigBelowOne == numRecords < 1 => pc # "returned"

\* C19: on every tick the price moves by the tick's shock, the draw that
\* entered the volatility update: priceChange = shock * volatility * price,
\* with no Gaussian draw of its own.
C19_PriceMovesByShock ==
    [][(pc = "loop" /\ i' = i + 1) =>
          currentPrice' =
              UpdatePrice(currentPrice,
                          PriceChange(gaussianRandom(stream, pos).value,
                                      currentVolatility', currentPrice))]_vars

\* C27: in every snapshot pushed the reported spread (1e-4) is the best ask
\* price minus the best bid price (cents), and the reported midPrice (1e-4)
\* is the midpoint of those two prices.
C27_SpreadAndMidOfBestPrices ==
    \A r \in Records :
        /\ r.spread = 100 * (r.askLevels[1].price - r.bidLevels[1].price)
        /\ 2 * r.midPrice = 100 * (r.askLevels[1].price + r.bidLevels[1].price)

\* the position of the first result at or after p that is not 0 (the source
\* repeats s, which is not all 0)
FirstNonZero(s, p) ==
    CHOOSE q \in p..(p + Len(s) - 1) :
        /\ UniformMicro[Draw(s, q)] > 0 \/ Radius[Draw(s, q)] > 0
        /\ \A r \in p..(q - 1) : UniformMicro[Draw(s, r)] = 0 /\ Radius[Draw(s, r)] = 0

\* C26: a call of gaussianRandom made when p results are consumed takes for u
\* the first result that is not 0 and for v the first after it that is not
\* 0 (so the logarithm is never taken of 0), returns the one value of that
\* pair and leaves the source right after v; on a source that never returns
\* 0 it consumes exactly two results.
C26_ZeroDrawsRedrawn ==
    pc = "loop" =>
        \A p \in pos..(pos + Len(stream)) :
            LET g == gaussianRandom(stream, p)
                pu == FirstNonZero(stream, p)
                pv == FirstNonZero(stream, pu + 1)
            IN  /\ g.value = BoxMuller(Draw(stream, pu), Draw(stream, pv))
                /\ g.pos = pv + 1
                /\ (\A q \in 1..Len(stream) : UniformMicro[stream[q]] > 0 \/ Radius[stream[q]] > 0)
                      => g.pos = p + 2

\* a tick is about to draw its shock, a snapshot is pushed, and the next
\* result of the source is 0: the call consumes more than two results
C26_ZeroDrawAhead ==
    /\ pc = "loop"
    /\ i < numRecords
    /\ Len(data) >= 1
    /\ UniformMicro[Draw(stream, pos)] = 0 /\ Radius[Draw(stream, pos)] = 0
    /\ gaussianRandom(stream, pos).pos > pos + 2

-----------------------------------------------------------------------------
(* Claims about calculateFeatures *)

\* C7: calculateFeatures returns len(snapshots) - 10 records when
\* len(snapshots) > 10 and an empty sequence otherwise; the k-th record
\* (from 0) belongs to snapshot k + 10 and carries its timestamp.
C7_FeatureCount ==
    /\ fpc = "returned" =>
          Len(features) = IF Len(snapshots) > 10 THEN Len(snapshots) - 10 ELSE 0
    /\ \A k \in 1..Len(features) :
          /\ features[k].timestamp = snapshots[k + 10].timestamp
          /\ features[k].midPrice = snapshots[k + 10].midPrice

\* C7 witness: 12 snapshots gave 2 feature records.
C7_TwoFeaturesReturned ==
    fpc = "returned" /\ Len(snapshots) = 12 /\ Len(features) = 2

\* C8: in every feature record futureDirection is the sign of the reported
\* (8-decimal) futureReturn.
C8_DirectionIsSignOfReported ==
    \A k \in 1..Len(features) :
        features[k].futureDirection = Sign(features[k].futureReturn)

\* C24: for the feature of snapshot i >= 10, priceMomentum is (mid_i -
\* mid_{i-10}) / mid_{i-10} (reported to 6 decimals) and priceVolatility is
\* the sum of the squared deviations from their mean, divided by 10, of the
\* 10 mid prices at i-10 .. i-1 (reported to 8 decimals; with S1 and S2 the
\* sums of the prices' differences from mid_{i-10} and of their squares it is
\* (10 * S2 - S1^2) / 100); 12 snapshots give exactly 2 feature records.
C24_LookbackWindow ==
    /\ \A k \in 1..Len(features) :
          LET first == snapshots[k].midPrice
              mid == snapshots[k + 10].midPrice
              S1 == SumTo([j \in 1..10 |-> snapshots[k + j - 1].midPrice - first], 10)
              S2 == SumTo([j \in 1..10 |-> (snapshots[k + j - 1].midPrice - first)
                                              * (snapshots[k + j - 1].midPrice - first)], 10)
          IN  /\ 2 * Abs(features[k].priceMomentum * first - 10^6 * (mid - first)) <= first
              /\ 2 * Abs(100 * features[k].priceVolatility - (10 * S2 - S1 * S1)) <= 100
    /\ (fpc = "returned" /\ Len(snapshots) = 12) => Len(features) = 2

\* 12 snapshots gave 2 features with a momentum and a variance that are not
\* 0, the price of snapshot 10 not among those of the second window
C24_TwoWindows ==
    /\ fpc = "returned"
    /\ Len(snapshots) = 12
    /\ Len(features) = 2
    /\ features[1].priceMomentum # 0
    /\ features[1].priceVolatility > 0
    /\ features[2].priceVolatility > 0
    /\ features[2].priceVolatility # features[1].priceVolatility
    /\ snapshots[11].midPrice # snapshots[10].midPrice
    /\ snapshots[12].midPrice # snapshots[11].midPrice

\* the two sequences have the same snapshots at the indices from .. to (from
\* 0) that exist
SameSnapshots(d, e, from, to) ==
    \A k \in Max(from, 0)..Min(to, Len(d) - 1) : d[k + 1] = e[k + 1]

\* C25: for two snapshot sequences of one length that agree on the indices
\* i-10 .. i+1 (those that exist), the feature record of snapshot i is the
\* same; the last feature of a call (i = N-1) has futureReturn 0 and
\* futureDirection 0.
C25_FeatureOfItsWindow ==
    /\ firstCall # <<>> =>
          \A k \in 1..Len(features) :
              SameSnapshots(firstCall[1].snapshots, snapshots, k + 9 - 10, k + 9 + 1) =>
                  features[k] = firstCall[1].features[k]
    /\ (fpc = "returned" /\ features # <<>>) =>
          /\ features[Len(features)].futureReturn = 0
          /\ features[Len(features)].futureDirection = 0

\* two calls on 13 snapshots that differ at index 0 only: the features of
\* the snapshots 11 and 12 are the same, that of snapshot 10 is not
C25_DifferOutsideTheWindow ==
    /\ firstCall # <<>>
    /\ fpc = "returned"
    /\ Len(snapshots) = 13
    /\ Len(features) = 3
    /\ snapshots[1] # firstCall[1].snapshots[1]
    /\ SameSnapshots(firstCall[1].snapshots, snapshots, 1, 12)
    /\ features[1] # firstCall[1].features[1]
    /\ features[2] = firstCall[1].features[2]
    /\ features[3] = firstCall[1].features[3]
    /\ features[2].futureReturn # 0

-----------------------------------------------------------------------------
(* Claims about the GARCH-like recursion of runTimeSeriesAnalysis *)

\* every return of the analysed sequence is 0
AllReturnsZero == \A k \in 1..Len(Returns(afeatures)) : Returns(afeatures)[k] = 0

\* how many updates condVar has had (it counts them in exp)
InRecursion == apc \in {"warmup", "garch", "forecast done"}

\* 3 * BetaDen^k times a variance c that has had k updates, in 1e-5
ThreeTimes(c) == BigMul(c.num, BetaDen - BetaNum)

\* BetaDen^(k+1) = 3 * BetaDen^k * omega / (1 - beta), in 1e-5
Stationary(k) == BigScale(BigOf(Omega), BetaDen, k + 1)

\* C9 as stated: with every return 0, the conditional variance after k >= 1
\* updates equals omega * (1 - beta^k) / (1 - beta), that is
\* 3 * condVar + 20 * (17/20)^k = 20 in 1e-5.
C9_StatedClosedForm ==
    (InRecursion /\ AllReturnsZero /\ condVar.exp >= 1) =>
        BigAdd(ThreeTimes(condVar), BigScale(BigOf(BetaDen * Omega), BetaNum, condVar.exp))
            = Stationary(condVar.exp)

\* C9 amended: with every return 0, the conditional variance after k updates
\* equals omega * (1 - beta^k) / (1 - beta) + beta^k * 0.0001, that is
\* 3 * condVar + 20 * (17/20)^k = 20 + 3 * 10 * (17/20)^k in 1e-5.
C9_ClosedFormWithSeed ==
    (InRecursion /\ AllReturnsZero) =>
        BigAdd(ThreeTimes(condVar), BigScale(BigOf(BetaDen * Omega), BetaNum, condVar.exp))
            = BigAdd(Stationary(condVar.exp),
                     BigScale(BigOf((BetaDen - BetaNum) * InitialCondVar), BetaNum, condVar.exp))

\* the recursion has run through warm-up and forecast on returns that are all 0
C9_ZeroReturnsRecursionDone ==
    /\ apc = "forecast done"
    /\ AllReturnsZero
    /\ condVar.exp = MaxFeatures - 1
    /\ Len(garchResults) >= 2

\* C10 as stated: with every return 0, every emitted forecastVolatility has
\* the same value.
C10_StatedConstantForecast ==
    AllReturnsZero =>
        \A a, b \in 1..Len(garchResults) :
            VarEq(garchResults[a].forecastVolatility.radicand,
                  garchResults[b].forecastVolatility.radicand)

\* C10 amended: with every return 0, the emitted forecastVolatility never
\* increases, and each emitted conditionalVariance is omega + beta * the one
\* emitted before it.
C10_ForecastDecays ==
    AllReturnsZero =>
        \A a \in 1..(Len(garchResults) - 1) :
            LET before == garchResults[a]
                after == garchResults[a + 1]
            IN  /\ VarLeq(after.forecastVolatility.radicand, before.forecastVolatility.radicand)
                /\ after.conditionalVariance.exp = before.conditionalVariance.exp + 1
                /\ after.conditionalVariance.num
                     = BigAdd(BigScale(BigOf(Omega), BetaDen, after.conditionalVariance.exp),
                              BigMul(before.conditionalVariance.num, BetaNum))

\* two forecasts have been emitted on returns that are all 0
C10_TwoForecastsOnZeroReturns ==
    /\ apc = "garch"
    /\ AllReturnsZero
    /\ Len(garchResults) = 2

-----------------------------------------------------------------------------
(* Claims about calcMetrics and the outcome of runTimeSeriesAnalysis *)

\* all three averages of a metrics record are numbers
AllDefined(m) == ~m.directionAccuracy.nan /\ ~m.mse.nan /\ ~m.mae.nan

\* C11: on series of fewer than 2 points calcMetrics divides by no zero:
\* directionAccuracy (and mse and mae for no point) comes out as a defined
\* value, also for the 0 or 1 forecast points runTimeSeriesAnalysis produces.
C11_MetricsDefinedOnShortStreams ==
    apc = "returned" =>
        /\ Len(arimaResults) < 2 => AllDefined(metrics.arima)
        /\ Len(garchResults) < 2 => AllDefined(metrics.garch)

\* the sequence primes both recursions: a test point, 10 training prices and
\* a training return
Primed(f) ==
    /\ Len(f) - TrainSize(Len(f)) >= 1
    /\ TrainSize(Len(f)) >= 10
    /\ Len(TrainReturns(f)) >= 1

\* C12: runTimeSeriesAnalysis returns streams and metrics only for a sequence
\* that primes both recursions (otherwise it signals AnalysisUnavailable), and
\* no price forecast is computed from a history of fewer than 10 elements.
C12_UnavailableWhenUnprimed ==
    /\ apc = "returned" => Primed(afeatures)
    /\ Len(arimaResults) >= 1 => Len(history) - Len(arimaResults) >= 10

\* the steps on which the two series move in the same one of the three
\* directions
SignMatches(actual, predicted) ==
    Cardinality({k \in 2..Len(actual) :
        Sign(actual[k] - actual[k - 1]) = Sign(predicted[k] - predicted[k - 1])})

\* C14: for n >= 2 directionAccuracy is 100 * correct / (n - 1) where a step
\* is correct exactly when the signs (-1, 0, 1) of the two changes are equal.
C14_DirectionComparesSigns ==
    (mpc = "returned" /\ Len(series[1]) >= 2) =>
        result.directionAccuracy =
            [nan |-> FALSE,
             num |-> 100 * SignMatches(series[1], series[2]),
             den |-> Len(series[1]) - 1]

\* C15: for n >= 2 directionAccuracy lies in [0, 100].
C15_DirectionAccuracyInRange ==
    (mpc = "returned" /\ Len(series[1]) >= 2) =>
        /\ ~result.directionAccuracy.nan
        /\ result.directionAccuracy.den > 0
        /\ 0 <= result.directionAccuracy.num
        /\ result.directionAccuracy.num <= 100 * result.directionAccuracy.den

\* a series of 4 points with some steps counted and some not
C15_SomeStepsCorrect ==
    /\ mpc = "returned"
    /\ Len(series[1]) = 4
    /\ result.directionAccuracy.num > 0
    /\ result.directionAccuracy.num < 100 * result.directionAccuracy.den

\* C16: mse is the mean of the squared differences, rmse^2 = mse, mae the
\* mean of the absolute differences, over all n points; for actual =
\* [1, 2, 3, 2] and predicted = [1.1, 1.9, 3.2, 1.8] (tenths) mse = 0.025,
\* mae = 0.15 and directionAccuracy = 100.
C16_MeansOverAllPoints ==
    (mpc = "returned" /\ Len(series[1]) >= 1) =>
        LET n == Len(series[1])
            d == [k \in 1..n |-> series[1][k] - series[2][k]]
        IN  /\ result.mse = [nan |-> FALSE,
                             num |-> BigOf(SumSeq([k \in 1..n |-> d[k] * d[k]])),
                             den |-> n]
            /\ result.rmse.radicand = result.mse
            /\ result.mae = [nan |-> FALSE,
                             num |-> SumSeq([k \in 1..n |-> Abs(d[k])]),
                             den |-> n]
            /\ series = ScenarioSeries =>
                  /\ BigMul(result.mse.num, 1000) = BigOf(25 * 100 * result.mse.den)
                  /\ 100 * result.mae.num = 15 * 10 * result.mae.den
                  /\ result.directionAccuracy.num = 100 * result.directionAccuracy.den

\* calcMetrics has returned on the series of the scenario
C16_ScenarioComputed == mpc = "returned" /\ series = ScenarioSeries

-----------------------------------------------------------------------------
(* Claims about the price forecasts and about the stages' inputs *)

\* runTimeSeriesAnalysis is past its price forecast loop
PriceForecastsDone == apc \in {"warmup", "garch", "forecast done", "regimes done", "returned"}

\* C17: with the split index floor(0.8 * len(features)), the j-th price
\* forecast point belongs to feature split + j (never to a training index),
\* carries its timestamp and its midPrice as actual, has error = actual -
\* predicted, and the stream has len(features) - split points.
C17_PriceForecastsCoverTestRegion ==
    LET n == Len(afeatures)
        split == (8 * n) \div 10
    IN  /\ \A j \in 1..Len(arimaResults) :
              /\ split + j <= n
              /\ arimaResults[j].timestamp = afeatures[split + j].timestamp
              /\ arimaResults[j].actual = afeatures[split + j].midPrice
              /\ arimaResults[j].error
                   = Minus(90 * arimaResults[j].actual, arimaResults[j].predicted)
        /\ PriceForecastsDone => Len(arimaResults) = n - split

\* 13 features gave 3 price forecast points
C17_ThreePointsOfThirteen ==
    apc = "returned" /\ Len(afeatures) = 13 /\ Len(arimaResults) = 3

\* C18: no stage changes its input: calculateFeatures leaves the snapshot
\* sequence as it is, runTimeSeriesAnalysis the feature sequence, and the
\* growing history is a copy of the first mid prices of the features.
C18_InputsUnchanged ==
    [][/\ snapshots' = snapshots
       /\ afeatures' = afeatures
       /\ history' = SubSeq(Prices(afeatures), 1, Len(history'))]_vars

\* runTimeSeriesAnalysis has returned with the history grown to all the mid
\* prices of its input
C18_HistoryGrownToInput ==
    apc = "returned" /\ Len(afeatures) = MaxFeatures /\ Len(history) = Len(afeatures)

\* C20: the j-th price forecast (from 0) is made from the history of the
\* first split + j mid prices (the actuals appended, never the predictions):
\* predicted = lastPrice + 0.7 * avgChange, avgChange the mean of the 9 first
\* differences of the last 10 history elements (their sum is the last minus
\* the tenth from last); predicted is in 1/90 of the price unit.
C20_WalkForwardPredictor ==
    /\ apc = "arima" =>
          history = SubSeq(Prices(afeatures), 1,
                           TrainSize(Len(afeatures)) + Len(arimaResults))
    /\ \A j \in 1..Len(arimaResults) :
          LET h == SubSeq(Prices(afeatures), 1, TrainSize(Len(afeatures)) + j - 1)
          IN  /\ Len(h) >= 10
              /\ arimaResults[j].predicted
                   = 90 * h[Len(h)] + 7 * (h[Len(h)] - h[Len(h) - 9])


-----------------------------------------------------------------------------
(* Claims about the order of the GARCH-like recursion *)

\* omega + alpha * r^2 + beta * c for a variance c and a return r (percent):
\* over the denominator 10^5 * 20^(c.exp + 1), (1 + r^2) * 20^(c.exp + 1)
\* + 17 * c.num.
UpdatedBy(c, r) ==
    [num |-> BigAdd(BigScale(BigOf(1 + r * r), 20, c.exp + 1), BigMul(c.num, 17)),
     exp |-> c.exp + 1]

\* the return of index k (from 0) of the analysed sequence, in percent
ReturnAt(k) ==
    MulDivRound(100 * (afeatures[k + 2].midPrice - afeatures[k + 1].midPrice), 1,
                afeatures[k + 1].midPrice)

\* C22: the warm-up updates condVar once per training-region return, in
\* order, and emits nothing; then for each test-region return index i in
\* order a point is emitted with conditionalVariance = condVar before r_i
\* enters it, forecastVolatility^2 = conditionalVariance, actualVolatility =
\* |r_i| and the timestamp of feature i + 1, and in the same step condVar
\* becomes omega + alpha * r_i^2 + beta * condVar.
C22_GarchOrdering ==
    /\ [](apc = "warmup" =>
            /\ garchResults = <<>>
            /\ condVar.exp = ai
            /\ ai <= (8 * Len(afeatures)) \div 10)
    /\ [](apc = "garch" =>
            /\ condVar.exp = (8 * Len(afeatures)) \div 10 + Len(garchResults)
            /\ ai = condVar.exp)
    /\ [][/\ (apc = "warmup" /\ condVar' # condVar) =>
              /\ condVar' = UpdatedBy(condVar, ReturnAt(ai))
              /\ garchResults' = <<>>
          /\ (apc = "garch" /\ garchResults' # garchResults) =>
              LET idx == (8 * Len(afeatures)) \div 10 + Len(garchResults)
                  point == garchResults'[Len(garchResults')]
              IN  /\ garchResults' = Append(garchResults, point)
                  /\ point.conditionalVariance = condVar
                  /\ point.forecastVolatility.radicand = point.conditionalVariance
                  /\ point.actualVolatility = Abs(ReturnAt(idx))
                  /\ point.timestamp = afeatures[idx + 2].timestamp
                  /\ condVar' = UpdatedBy(condVar, ReturnAt(idx))
          /\ (apc = "garch" /\ condVar' # condVar) => garchResults' # garchResults]_vars

\* the recursion is over on 13 features with a return that is not 0 in the
\* training region and one in the test region: 10 updates without a point,
\* then 2 points
C22_WarmupThenTwoPoints ==
    /\ apc = "forecast done"
    /\ Len(afeatures) = 13
    /\ Len(garchResults) = 2
    /\ condVar.exp = 12
    /\ \E k \in 0..9 : ReturnAt(k) # 0
    /\ \E k \in 10..11 : ReturnAt(k) # 0

-----------------------------------------------------------------------------
(* Claims about the volatility regimes *)

RegimeWindowSum ==
    SumBetween([k \in 1..Len(afeatures) |-> afeatures[k].volatility], 3, Len(afeatures))

-----------------------------------------------------------------------------
(* Claims about two calls of runTimeSeriesAnalysis *)

\* the two sequences have the same mid prices at the indices 0 .. last
SameMidPrices(f, g, last) ==
    \A k \in 1..(last + 1) : f[k].midPrice = g[k].midPrice

\* C21: for two feature sequences of one length, the price forecast of test
\* index i is the same when they agree on the mid prices at all indices < i,
\* and the forecastVolatility and conditionalVariance of return index i are
\* the same when they agree on the mid prices at all indices <= i.
C21_NoLookAhead ==
    firstCall # <<>> =>
        LET first == firstCall[1]
            split == (8 * Len(afeatures)) \div 10
        IN  /\ \A j \in 1..Len(arimaResults) :
                  SameMidPrices(first.features, afeatures, split + j - 2) =>
                      arimaResults[j].predicted = first.arimaResults[j].predicted
            /\ \A j \in 1..Len(garchResults) :
                  SameMidPrices(first.features, afeatures, split + j - 1) =>
                      /\ garchResults[j].forecastVolatility
                            = first.garchResults[j].forecastVolatility
                      /\ garchResults[j].conditionalVariance
                            = first.garchResults[j].conditionalVariance

\* two calls on sequences that differ first at the second test index: the
\* forecasts made before it are the same and a later price forecast differs
C21_ForecastsDifferLater ==
    /\ firstCall # <<>>
    /\ apc = "returned"
    /\ Len(arimaResults) >= 3
    /\ Len(garchResults) >= 2
    /\ LET split == (8 * Len(afeatures)) \div 10
       IN  /\ SameMidPrices(firstCall[1].features, afeatures, split)
           /\ ~SameMidPrices(firstCall[1].features, afeatures, split + 1)
    /\ arimaResults[2].predicted = firstCall[1].arimaResults[2].predicted
    /\ arimaResults[3].predicted # firstCall[1].arimaResults[3].predicted
    /\ garchResults[1].conditionalVariance = firstCall[1].garchResults[1].conditionalVariance
    /\ garchResults[2].conditionalVariance # firstCall[1].garchResults[2].conditionalVariance

-----------------------------------------------------------------------------
(* Claims about the lengths of the two forecast streams *)

\* C29: on a feature sequence of length >= 1, once the forecast loops are
\* over, there are len - split price forecasts and len - 1 - split
\* volatility forecasts, one fewer, and every volatility forecast carries the
\* timestamp of the feature after its return index, which exists, and not
\* that of the feature at its return index.
C29_OnePointFewer ==
    (apc \in {"forecast done", "regimes done", "returned"} /\ Len(afeatures) >= 1) =>
        LET split == (8 * Len(afeatures)) \div 10
        IN  /\ Len(arimaResults) = Len(afeatures) - split
            /\ Len(garchResults) = Len(afeatures) - 1 - split
            /\ Len(garchResults) = Len(arimaResults) - 1
            /\ \A j \in 1..Len(garchResults) :
                   /\ split + j + 1 <= Len(afeatures)
                   /\ garchResults[j].timestamp = afeatures[split + j + 1].timestamp
                   /\ garchResults[j].timestamp # afeatures[split + j].timestamp

\* 13 features: 3 price forecasts and 2 volatility forecasts, the last one
\* with the timestamp of the last feature
C29_ThreeAndTwoPoints ==
    /\ apc = "returned"
    /\ Len(afeatures) = 13
    /\ Len(arimaResults) = 3
    /\ Len(garchResults) = 2
    /\ arimaResults[3].timestamp = afeatures[13].timestamp
    /\ garchResults[2].timestamp = afeatures[13].timestamp

-----------------------------------------------------------------------------
(* Claims about the best prices *)

\* C28: the book is never crossed or locked: once level 0 is pushed, the
\* best bid is strictly below the best ask, and the price of the last trade
\* is the best ask of a buy and the best bid of a sell.
C28_BookNeverCrossedOrLocked ==
    lpc = "pushed" =>
        /\ best.bid < best.ask
        /\ best.trade = (IF quote.tradeSide = "buy" THEN best.ask ELSE best.bid)

====
